---- MODULE Spec2Model ----
(***************************************************************************)
(* ASR-Accuracy-Tool: the Job Manager (asr_tool/services/job_manager.py),  *)
(* the job submission routes and the record routes (asr_tool/routes.py),   *)
(* the transcript table (asr_tool/services/storage.py) and the body of a   *)
(* transcription job (routes.py, transcription_task).                      *)
(*                                                                         *)
(* Spec         request threads and background wrapper threads around one  *)
(*              JobManager, with its lock                                  *)
(* FairSpec     Spec with weak fairness of every thread step               *)
(* StorageSpec  storage operations of several threads, each split at the   *)
(*              points where the storage lock is released                  *)
(* SeqStorageSpec  storage operations run one after another                *)
(* TaskSpec     the life of one transcription job in the order of          *)
(*              run_job_async and its wrapper: create_job, start_job, the  *)
(*              body of transcription_task, complete_job or fail_job       *)
(* ImportSpec   the life of one manual import job (routes.py, import_task) *)
(*              beside a reviewer reading the transcript table             *)
(* RestartSpec  TaskSpec with the end of the process and the construction  *)
(*              of a new JobManager from the history file                  *)
(* ProgressSpec update_progress called with any counts on a created or     *)
(*              running job                                                *)
(* LegacySpec   the legacy application (app.py): worker processes writing  *)
(*              the spreadsheet, the web process polling and saving edits  *)
(* CounterSpec  the legacy worker processes counting chunks in Redis       *)
(*              beside a client polling /get-progress                      *)
(* ModelSpec    load_model (asr_tool/services/model.py) behind its         *)
(*              lru_cache(maxsize=1)                                       *)
(* SegmentSpec  segment_audio (asr_tool/services/audio.py): the segment    *)
(*              files ffmpeg writes and the order sorted(glob) lists them  *)
(* SingletonSpec  threads calling get_job_manager for the first time       *)
(* PollSpec     FairSpec beside a client polling get_job                   *)
(* ReviewSpec   TaskSpec beside a reviewer calling update_record,          *)
(*              lock_record and unlock_record                              *)
(***************************************************************************)
EXTENDS Integers, Sequences, FiniteSets, TLC

\* ------------------------------------------------------------------ bounds
\* number of submission requests (each draws its own uuid4 job id)
MaxReqs == 3
\* largest number of audio files discovered for one transcription job
MaxFiles == 2
\* largest number of segments cut from one audio file
MaxSegs == 2
\* number of threads calling the storage service
MaxSThreads == 2
\* number of record ids (uuid4) drawn by storage callers
MaxRows == 2
\* number of storage operations called in one run
MaxOps == 5
\* largest number of rows of the spreadsheet of a manual import
MaxExcelRows == 1
\* number of reviewers' storage operations around one manual import
MaxImportOps == 2
\* largest count passed to update_progress
MaxTotal == 50
\* legacy: number of worker processes
MaxWorkers == 2
\* legacy: largest number of segments transcribed by one worker process
MaxChunks == 2
\* number of reviewers' storage operations around one transcription job
MaxReviewOps == 1
\* number of load_model calls
MaxLoads == 4
\* largest number of segment files ffmpeg writes for one audio file
MaxSegFiles == 1001
\* number of threads calling get_job_manager
MaxGThreads == 3
\* number of get_job_manager calls of one thread
MaxGets == 2

\* ------------------------------------------------------- values and types
None == "None"
\* any value of time.time()
Stamp == "ts"

PENDING == "pending"
RUNNING == "running"
COMPLETED == "completed"
FAILED == "failed"
CANCELLED == "cancelled"
JobStatus == {PENDING, RUNNING, COMPLETED, FAILED, CANCELLED}

TRANSCRIBE == "transcribe"
MANUAL_IMPORT == "manual_import"
JobType == {TRANSCRIBE, MANUAL_IMPORT}

\* job ids: uuid4 drawn per request, so request r owns job id r
JobIds == 1..MaxReqs

\* the result payload is a sequence; the empty sequence is "no result"
NoResult == <<>>

\* the metadata the routes give a job (routes.py 144, 240): the keys stand
\* for the dict
Metadata(job_type) ==
    IF job_type = TRANSCRIBE THEN <<"folder", "model_name">>
    ELSE <<"chunk_folder", "excel_path">>

JobInfo(job_type, total_items) ==
    [job_type |-> job_type, status |-> PENDING, progress |-> 0,
     total_items |-> total_items, processed_items |-> 0,
     created_at |-> Stamp, started_at |-> None, completed_at |-> None,
     error |-> None, result |-> NoResult, metadata |-> Metadata(job_type)]

\* threads: one request handler per request, one wrapper thread per job
Req(r) == <<"req", r>>
Wrapper(j) == <<"wrapper", j>>
NoThread == <<"nobody", 0>>
Threads == {Req(r) : r \in JobIds} \cup {Wrapper(j) : j \in JobIds}

VARIABLES
    jobs,       \* JobManager._jobs: job id -> JobInfo
    active,     \* JobManager._active_jobs_by_type: job type -> job id or 0
    lock,       \* holder of JobManager._lock, or NoThread
    jobsFile,   \* contents of data/jobs.json
    saved,      \* history: how the last call of _save_jobs ended
    pc,         \* position of every request handler and wrapper thread
    reqType,    \* job type of the route a request entered
    resp,       \* HTTP status answered to a request, 0 while unanswered
    conflict,   \* active_job_id carried by a 409 response, 0 otherwise
    nfiles,     \* len(files) of a transcription request
    stateFile,  \* rows of data/transcriptions.csv, cells as written
    nextId,     \* number of record ids drawn so far
    nops,       \* number of storage operations called so far
    spc,        \* storage caller: "idle", or "loaded" between load and save
    sop,        \* storage caller: the operation it is in
    sdf,        \* storage caller: its local DataFrame
    sres,       \* storage caller: outcome of its last operation
    lastLock,   \* history: last of lock_record/unlock_record done on a row
    stage,      \* history: progress of a row through lock, refused edit,
                \*          unlock, accepted edit
    lockedText, \* history: text of a row when lock_record returned
    appended,   \* history: ids whose append_record/bulk_import returned
    missed,     \* history: whether an update, lock or unlock call has
                \*          returned that found rows but none with its id
    tpc,        \* transcription job thread: position
    tfiles,     \* transcription_task: len(files)
    tidx,       \* transcription_task: idx of the file loop
    tsegs,      \* transcription_task: len(segments) of the current file
    tseg,       \* transcription_task: segments of the current file done
    total_segments, \* transcription_task: total_segments
    raised,     \* str(e) of the exception that left the task function
    excel,      \* manual import: the spreadsheet at excel_path
    idf,        \* manual import: local DataFrame and records of bulk_import
    xlsx,       \* legacy: rows of the spreadsheet file, <<>> while there is none
    writing,    \* legacy: the worker whose to_excel is rewriting the file, or 0
    legacy_df,  \* legacy: the global df of the web process
    last_sent_row, \* legacy: the global cursor of the web process
    latest,     \* legacy: the answer of the last /get-latest-data call
    caught_up,  \* history: whether the last call read the table and answered
                \*          with the sentinel, the table it read, and whether
                \*          the call before it had done so on a table one row
                \*          shorter
    returned,   \* history: filenames of the rows returned so far
    wdf,        \* legacy: the global df of every worker process
    update_args, \* the arguments of the last update_progress call
    model_cache, \* load_model: the entries of its lru_cache, oldest first
    body_runs,  \* load_model: number of times its body has run
    calls,      \* history: the load_model calls made, with what each returned
    _job_manager,  \* the global _job_manager: an instance, or 0 for None
    _manager_lock, \* holder of the global _manager_lock, or 0
    gpc,        \* get_job_manager caller: position
    gret,       \* get_job_manager caller: what its calls returned
    constructed, \* history: number of JobManager instances constructed
    seg_n,      \* segment_audio: number of segment files ffmpeg has written
    seg_pos,    \* segment_audio: index of the newest file in sorted(glob)
    ppc,        \* a GET /api/jobs/<job_id> request: position
    total_files,     \* legacy: the Redis key total_files
    processed_files, \* legacy: the Redis key processed_files
    all_crops,  \* legacy: per worker, the chunks its task has still to do
    wpc,        \* legacy: per worker, its position in process_audio
    gp_total,   \* legacy: total_files as a running /get-progress read it
    gp_answer   \* legacy: the progress of the last /get-progress answer

jmVars == <<jobs, active, lock, jobsFile, saved>>
rqVars == <<pc, reqType, resp, conflict, nfiles>>
stVars == <<stateFile, nextId>>
scVars == <<spc, sop, sdf, sres, nops, lastLock, stage, lockedText,
           appended, missed>>
tkVars == <<tpc, tfiles, tidx, tsegs, tseg, total_segments, raised>>
imVars == <<excel, idf>>
lgVars == <<xlsx, writing, legacy_df, last_sent_row, latest, caught_up,
           returned, wdf>>
upVars == <<update_args>>
mdVars == <<model_cache, body_runs, calls>>
sgVars == <<_job_manager, _manager_lock, gpc, gret, constructed>>
sfVars == <<seg_n, seg_pos>>
plVars == <<ppc>>
rdVars == <<total_files, processed_files, all_crops, wpc, gp_total, gp_answer>>

vars == <<jobs, active, lock, jobsFile, saved, pc, reqType, resp, conflict, nfiles,
          stateFile, nextId, spc, sop, sdf, sres, nops, lastLock, stage,
          lockedText, appended, missed, tpc, tfiles, tidx, tsegs, tseg,
          total_segments, raised, excel, idf, xlsx, writing, legacy_df,
          last_sent_row, latest, caught_up, returned, wdf, update_args,
          model_cache, body_runs, calls, _job_manager, _manager_lock, gpc,
          gret, constructed, seg_n, seg_pos, ppc, total_files,
          processed_files, all_crops, wpc, gp_total, gp_answer>>

\* ------------------------------------------------------------ Job Manager
\* _active_jobs_by_type.get(job_type): 0 stands for a missing key
NoJob == 0

\* data/jobs.json: no file, a JSON list of job dicts, or a file that open()
\* emptied and json.dump did not finish
NoFile == [text |-> "none", data |-> {}]
Json(data) == [text |-> "json", data |-> data]
CutOff == [text |-> "cut off", data |-> {}]

\* json.dump and json.load of an Optional[float] or Optional[str]
to_json(v) == IF v = None THEN "null" ELSE v
from_json(c) == IF c = "null" THEN None ELSE c

\* to_dict that leaves the error out of the dict
to_dict_no_error(job_id, job) ==
    [job_id |-> job_id,
     job_type |-> job.job_type,
     status |-> job.status,
     progress |-> job.progress,
     total_items |-> job.total_items,
     processed_items |-> job.processed_items,
     created_at |-> job.created_at,
     started_at |-> to_json(job.started_at),
     completed_at |-> to_json(job.completed_at),
     error |-> "null",
     result |-> job.result,
     metadata |-> job.metadata]

\* JobInfo.to_dict, as json.dump writes it
to_dict(job_id, job) ==
    [job_id |-> job_id,
     job_type |-> job.job_type,
     status |-> job.status,
     progress |-> job.progress,
     total_items |-> job.total_items,
     processed_items |-> job.processed_items,
     created_at |-> job.created_at,
     started_at |-> to_json(job.started_at),
     completed_at |-> to_json(job.completed_at),
     error |-> to_json(job.error),
     result |-> job.result,
     metadata |-> job.metadata]

\* how a call of _save_jobs ends: the list is written; mkdir or open raised
\* and the file is untouched; open emptied the file and the write raised.
\* The exception is swallowed in the last two.
Written == "written"
NotOpened == "not opened"
WriteRaised == "write raised"
SaveOutcomes == {Written, NotOpened, WriteRaised}

\* _save_jobs: the whole table is dumped; the list is kept as the set of
\* its dicts, _load_jobs keys them by job_id and reads no order
_save_jobs(table, how) ==
    CASE how = Written -> Json({to_dict(j, table[j]) : j \in DOMAIN table})
      [] how = NotOpened -> jobsFile
      [] how = WriteRaised -> CutOff

\* a call of _save_jobs at the end of an operation
_save_jobs_call(table, how) ==
    /\ jobsFile' = _save_jobs(table, how)
    /\ saved' = how

\* create_job, body under the lock (lines 117-127)
create_job(table, job_id, job_type, total_items) ==
    (job_id :> JobInfo(job_type, total_items)) @@ table

\* can_start_job, body under the lock (lines 137-142):
\* <<can_start, active_job_id>>
can_start_job(job_type) ==
    LET active_job_id == active[job_type] IN
    IF active_job_id # NoJob /\ active_job_id \in DOMAIN jobs
       /\ jobs[active_job_id].status = RUNNING
    THEN <<FALSE, active_job_id>>
    ELSE <<TRUE, NoJob>>

\* threading.Lock.acquire by thread t: the lock is not re-entrant, the
\* holder itself waits like everybody else
acquirable(t) == lock = NoThread

\* --------------------------------------------------------- storage values
\* a missing value of a DataFrame cell
NaN == "nan"
\* texts sent as corrected_transcription to POST /api/records
Texts == {"", "a"}
\* text returned by transcribe_file
ModelText == "t"
\* f"[Error: {str(e)}]"
ErrorMarker == "[Error: e]"

SThreads == 1..MaxSThreads
RecIds == 1..MaxRows
NoOp == [op |-> "none", id |-> 0, text |-> "", n |-> 0]
NotLocked == "<not locked>"

\* a spreadsheet as pd.read_excel sees it: whether it can be read, which of
\* the columns filename, transcription and correct_transcripts it has, and
\* its number of rows
Excel(readable, c_filename, c_transcription, c_correct, rows) ==
    [readable |-> readable, filename |-> c_filename,
     transcription |-> c_transcription, correct_transcripts |-> c_correct,
     rows |-> rows]
NoExcel == Excel(FALSE, FALSE, FALSE, FALSE, 0)
ExcelFiles ==
    {NoExcel}
    \cup {Excel(TRUE, f, t, FALSE, 1) :
            f \in BOOLEAN, t \in BOOLEAN}
    \cup {Excel(TRUE, TRUE, TRUE, c, n) :
            c \in BOOLEAN, n \in 0..MaxExcelRows}

\* model names passed to load_model; the empty name is refused (line 19)
ModelNames == {"", "a", "b"}
\* threads calling get_job_manager
GThreads == 1..MaxGThreads

\* ---------------------------------------------------------- legacy values
Workers == 1..MaxWorkers
\* jsonify("All_Records_Processed") and jsonify(new_rows)
All_Records_Processed == [json |-> "All_Records_Processed", rows |-> <<>>]
NewRows(new_rows) == [json |-> "list", rows |-> new_rows]
NoAnswer == [json |-> "none", rows |-> <<>>]
\* Redis: a key that was never set
NoKey == -1
\* get_progress: no redis.get has answered yet in this call
NotRead == -2
\* jsonify({"progress": ...}): the quotient num / den, kept as a fraction
Progress(num, den) == [num |-> num, den |-> den]

Init ==
    /\ jobs = <<>>
    /\ active = [t \in JobType |-> NoJob]
    /\ lock = NoThread
    /\ jobsFile = NoFile
    /\ saved = None
    /\ pc = [t \in Threads |-> IF t[1] = "req" THEN "idle" ELSE "unborn"]
    /\ reqType = [r \in JobIds |-> None]
    /\ resp = [r \in JobIds |-> 0]
    /\ conflict = [r \in JobIds |-> NoJob]
    /\ nfiles = [r \in JobIds |-> 0]
    /\ stateFile = <<>>
    /\ nextId = 0
    /\ nops = 0
    /\ spc = [t \in SThreads |-> "idle"]
    /\ sop = [t \in SThreads |-> NoOp]
    /\ sdf = [t \in SThreads |-> <<>>]
    /\ sres = [t \in SThreads |-> None]
    /\ lastLock = [i \in RecIds |-> None]
    /\ stage = [i \in RecIds |-> 0]
    /\ lockedText = [i \in RecIds |-> NotLocked]
    /\ appended = {}
    /\ missed = FALSE
    /\ tpc = "unborn"
    /\ tfiles = 0
    /\ tidx = 0
    /\ tsegs = 0
    /\ tseg = 0
    /\ total_segments = 0
    /\ raised = None
    /\ excel = NoExcel
    /\ idf = <<>>
    /\ xlsx = <<>>
    /\ writing = 0
    /\ legacy_df = <<>>
    /\ last_sent_row = 0
    /\ latest = NoAnswer
    /\ caught_up = [ok |-> FALSE, table |-> <<>>, one_more |-> FALSE]
    /\ returned = {}
    /\ wdf = [w \in Workers |-> <<>>]
    /\ update_args = <<0, 0, 0>>
    /\ model_cache = <<>>
    /\ body_runs = 0
    /\ calls = <<>>
    /\ _job_manager = 0
    /\ _manager_lock = 0
    /\ gpc = [g \in GThreads |-> "idle"]
    /\ gret = [g \in GThreads |-> <<>>]
    /\ constructed = 0
    /\ seg_n = 0
    /\ seg_pos = 0
    /\ ppc = "idle"
    /\ total_files = NoKey
    /\ processed_files = NoKey
    /\ all_crops = [w \in Workers |-> 0]
    /\ wpc = [w \in Workers |-> "idle"]
    /\ gp_total = NotRead
    /\ gp_answer = Progress(0, 1)

\* ----------------------------------------------- submission routes, wrapper
\* return jsonify(...), code
Answer(r, code) ==
    /\ resp' = [resp EXCEPT ![r] = code]
    /\ pc' = [pc EXCEPT ![Req(r)] = "done"]

\* POST /api/jobs/transcribe, payload validation (routes.py 45-57)
start_transcription(r) ==
    /\ pc[Req(r)] = "idle"
    /\ reqType' = [reqType EXCEPT ![r] = TRANSCRIBE]
    /\ \E valid \in BOOLEAN :
         IF valid
         THEN /\ pc' = [pc EXCEPT ![Req(r)] = "can_start_job"]
              /\ UNCHANGED resp
         ELSE Answer(r, 400)
    /\ UNCHANGED <<jobs, active, lock, jobsFile, saved, conflict, nfiles>>
    /\ UNCHANGED <<stVars, scVars, tkVars, imVars, lgVars, upVars, mdVars, sgVars, sfVars, plVars, rdVars>>

\* POST /api/manual/import, payload and path validation (routes.py 186-211)
manual_import(r) ==
    /\ pc[Req(r)] = "idle"
    /\ reqType' = [reqType EXCEPT ![r] = MANUAL_IMPORT]
    /\ \E valid \in BOOLEAN :
         IF valid
         THEN /\ pc' = [pc EXCEPT ![Req(r)] = "can_start_job"]
              /\ UNCHANGED resp
         ELSE Answer(r, 400)
    /\ UNCHANGED <<jobs, active, lock, jobsFile, saved, conflict, nfiles>>
    /\ UNCHANGED <<stVars, scVars, tkVars, imVars, lgVars, upVars, mdVars, sgVars, sfVars, plVars, rdVars>>

\* the job a thread works for
JobOf(t) == t[2]

\* can_start_job called by a thread (job_manager.py 131-142): the caller
\* takes the lock, reads, releases.  Callers: the two routes (routes.py
\* 61, 215) and start_job (job_manager.py 151), which calls it while it
\* holds the lock itself and goes on with lines 153-160 on its return.
can_start_job_call(t) ==
    /\ pc[t] = "can_start_job"
    /\ acquirable(t)
    /\ IF t[1] = "req"
       THEN LET r == JobOf(t)
                res == can_start_job(reqType[r])
            IN  /\ IF ~res[1]
                   THEN /\ Answer(r, 409)
                        /\ conflict' = [conflict EXCEPT ![r] = res[2]]
                   ELSE /\ pc' = [pc EXCEPT ![t] =
                                  IF reqType[r] = TRANSCRIBE
                                  THEN "count_files" ELSE "create_job"]
                        /\ UNCHANGED <<resp, conflict>>
                /\ UNCHANGED <<jobs, active, lock, jobsFile, saved>>
       ELSE LET job_id == JobOf(t)
                res == can_start_job(jobs[job_id].job_type)
            IN  IF ~res[1]
                THEN \* lines 153-154: return False; wrapper goes to line 250
                     /\ pc' = [pc EXCEPT ![t] = "fail_job"]
                     /\ lock' = NoThread
                     /\ UNCHANGED <<jobs, active, jobsFile, saved, resp, conflict>>
                ELSE \* lines 156-160
                     /\ jobs' = [jobs EXCEPT ![job_id].status = RUNNING,
                                             ![job_id].started_at = Stamp]
                     /\ active' = [active EXCEPT
                                     ![jobs[job_id].job_type] = job_id]
                     /\ \E how \in SaveOutcomes : _save_jobs_call(jobs', how)
                     /\ lock' = NoThread
                     /\ pc' = [pc EXCEPT ![t] = "task_func"]
                     /\ UNCHANGED <<resp, conflict>>
    /\ UNCHANGED <<reqType, nfiles>>
    /\ UNCHANGED <<stVars, scVars, tkVars, imVars, lgVars, upVars, mdVars, sgVars, sfVars, plVars, rdVars>>

\* count_files with the job record written before the folder is looked at
count_files_after_create(r) ==
    /\ pc[Req(r)] = "count_files"
    /\ acquirable(Req(r))
    /\ \E n \in 0..MaxFiles :
         /\ jobs' = create_job(jobs, r, reqType[r], n)
         /\ _save_jobs_call(jobs', Written)
         /\ IF n = 0
            THEN /\ Answer(r, 400)
                 /\ UNCHANGED nfiles
            ELSE /\ nfiles' = [nfiles EXCEPT ![r] = n]
                 /\ pc' = [pc EXCEPT ![Req(r)] = "thread_start"]
                 /\ UNCHANGED resp
    /\ UNCHANGED <<active, lock, reqType, conflict>>
    /\ UNCHANGED <<stVars, scVars, tkVars, imVars, lgVars, upVars, mdVars, sgVars, sfVars, plVars, rdVars>>

\* list(iter_audio_files(folder)) in start_transcription (routes.py 68-76):
\* an unreadable folder and an empty one both answer 400
count_files(r) ==
    /\ pc[Req(r)] = "count_files"
    /\ \E n \in 0..MaxFiles :
         IF n = 0
         THEN /\ Answer(r, 400)
              /\ UNCHANGED nfiles
         ELSE /\ nfiles' = [nfiles EXCEPT ![r] = n]
              /\ pc' = [pc EXCEPT ![Req(r)] = "create_job"]
              /\ UNCHANGED resp
    /\ UNCHANGED <<jobs, active, lock, jobsFile, saved, reqType, conflict>>
    /\ UNCHANGED <<stVars, scVars, tkVars, imVars, lgVars, upVars, mdVars, sgVars, sfVars, plVars, rdVars>>

\* run_job_async line 246: create_job under the lock (114-129)
run_job_async_create(r) ==
    /\ pc[Req(r)] = "create_job"
    /\ acquirable(Req(r))
    /\ jobs' = create_job(jobs, r, reqType[r], nfiles[r])
    /\ \E how \in SaveOutcomes : _save_jobs_call(jobs', how)
    /\ pc' = [pc EXCEPT ![Req(r)] = "thread_start"]
    /\ UNCHANGED <<active, lock, reqType, resp, conflict, nfiles>>
    /\ UNCHANGED <<stVars, scVars, tkVars, imVars, lgVars, upVars, mdVars, sgVars, sfVars, plVars, rdVars>>

\* run_job_async lines 259-262 and the route's "started" answer
run_job_async_start(r) ==
    /\ pc[Req(r)] = "thread_start"
    /\ resp' = [resp EXCEPT ![r] = 200]
    /\ pc' = [pc EXCEPT ![Req(r)] = "done", ![Wrapper(r)] = "start_job"]
    /\ UNCHANGED <<jobs, active, lock, jobsFile, saved, reqType, conflict, nfiles>>
    /\ UNCHANGED <<stVars, scVars, tkVars, imVars, lgVars, upVars, mdVars, sgVars, sfVars, plVars, rdVars>>

\* start_job that marks the job running without asking can_start_job
start_job_unchecked(job_id) ==
    /\ pc[Wrapper(job_id)] = "start_job"
    /\ acquirable(Wrapper(job_id))
    /\ jobs' = [jobs EXCEPT ![job_id].status = RUNNING,
                            ![job_id].started_at = Stamp]
    /\ active' = [active EXCEPT ![jobs[job_id].job_type] = job_id]
    /\ _save_jobs_call(jobs', Written)
    /\ pc' = [pc EXCEPT ![Wrapper(job_id)] = "task_func"]
    /\ UNCHANGED <<lock, reqType, resp, conflict, nfiles>>
    /\ UNCHANGED <<stVars, scVars, tkVars, imVars, lgVars, upVars, mdVars, sgVars, sfVars, plVars, rdVars>>

\* wrapper line 249 -> start_job lines 146-151: take the lock, find the job,
\* call can_start_job with the lock held
start_job(job_id) ==
    /\ pc[Wrapper(job_id)] = "start_job"
    /\ acquirable(Wrapper(job_id))
    /\ IF job_id \in DOMAIN jobs
       THEN /\ lock' = Wrapper(job_id)
            /\ pc' = [pc EXCEPT ![Wrapper(job_id)] = "can_start_job"]
       ELSE \* lines 147-148: return False, the lock is released on the way
            /\ lock' = lock
            /\ pc' = [pc EXCEPT ![Wrapper(job_id)] = "fail_job"]
    /\ UNCHANGED <<jobs, active, jobsFile, saved, reqType, resp, conflict, nfiles>>
    /\ UNCHANGED <<stVars, scVars, tkVars, imVars, lgVars, upVars, mdVars, sgVars, sfVars, plVars, rdVars>>

\* ---------------------------------------------------------------- storage
\* load_state and save_state hold the storage lock (_lock, an RLock) for
\* their own body only; nothing else in storage.py takes it.  Each of the two
\* is therefore one step, and an operation is two steps: up to the return of
\* load_state, and the rest.

\* DataFrame.to_csv: a missing value is written as an empty field
to_csv_cell(v) == IF v \in {NaN, None} THEN "" ELSE v
\* pandas.read_csv: an empty field is read as a missing value
read_csv_cell(c) == IF c = "" THEN NaN ELSE c
to_csv_bool(b) == IF b THEN "True" ELSE "False"
read_csv_bool(c) == c = "True"

\* load_state: pd.read_csv(STATE_FILE), or the empty table
load_state(file) ==
    [i \in 1..Len(file) |->
        [id |-> file[i].id,
         filename |-> file[i].filename,
         transcription |-> read_csv_cell(file[i].transcription),
         correct_transcripts |-> read_csv_cell(file[i].correct_transcripts),
         job_id |-> file[i].job_id,
         locked |-> read_csv_bool(file[i].locked),
         locked_at |-> read_csv_cell(file[i].locked_at)]]

\* save_state: df.to_csv(STATE_FILE, index=False)
save_state(df) ==
    [i \in 1..Len(df) |->
        [id |-> df[i].id,
         filename |-> df[i].filename,
         transcription |-> to_csv_cell(df[i].transcription),
         correct_transcripts |-> to_csv_cell(df[i].correct_transcripts),
         job_id |-> df[i].job_id,
         locked |-> to_csv_bool(df[i].locked),
         locked_at |-> to_csv_cell(df[i].locked_at)]]

\* the record dict built by transcription_task (routes.py 100-108, 114-122)
\* and by import_manual (storage.py 106-114)
Record(id, filename, transcription, correct_transcripts, job_id) ==
    [id |-> id, filename |-> filename, transcription |-> transcription,
     correct_transcripts |-> correct_transcripts, job_id |-> job_id,
     locked |-> FALSE, locked_at |-> None]

\* append_record line 35
append_record(df, record) == Append(df, record)

\* bulk_import line 80
bulk_import(df, records) == df \o records

\* mask = df["id"] == record_id
mask(df, record_id) == {i \in 1..Len(df) : df[i].id = record_id}
iloc0(df, m) == df[CHOOSE i \in m : \A k \in m : i <= k]

\* update_record with the locked test left out
update_record_unguarded(df, record_id) == FALSE

\* update_record lines 42-45: the ValueError for a locked row
update_record_locked(df, record_id) ==
    LET m == mask(df, record_id) IN
    m # {} /\ iloc0(df, m).locked

\* update_record that writes the text into every row
update_record_every_row(df, record_id, corrected_text) ==
    [i \in 1..Len(df) |-> [df[i] EXCEPT !.correct_transcripts = corrected_text]]

\* update_record line 46
update_record(df, record_id, corrected_text) ==
    [i \in 1..Len(df) |->
        IF df[i].id = record_id
        THEN [df[i] EXCEPT !.correct_transcripts = corrected_text]
        ELSE df[i]]

\* lock_record lines 58-60
lock_record(df, record_id) ==
    [i \in 1..Len(df) |->
        IF df[i].id = record_id
        THEN [df[i] EXCEPT !.locked = TRUE, !.locked_at = Stamp]
        ELSE df[i]]

\* unlock_record that leaves locked_at as it is
unlock_record_keeps_stamp(df, record_id) ==
    [i \in 1..Len(df) |->
        IF df[i].id = record_id
        THEN [df[i] EXCEPT !.locked = FALSE]
        ELSE df[i]]

\* unlock_record lines 72-74
unlock_record(df, record_id) ==
    [i \in 1..Len(df) |->
        IF df[i].id = record_id
        THEN [df[i] EXCEPT !.locked = FALSE, !.locked_at = None]
        ELSE df[i]]

HasRow(file, id) == \E i \in 1..Len(file) : file[i].id = id
RowOf(file, id) == file[CHOOSE i \in 1..Len(file) : file[i].id = id]

\* the records a caller appends: fresh uuid4 ids nextId+1 .. nextId+n
NewRecords(n) ==
    [k \in 1..n |-> Record(nextId + k, <<0, nextId + k>>, ModelText, ModelText, 0)]

\* a storage operation up to the return of load_state() (storage.py 34, 40,
\* 52, 66, 79): load_state runs under the storage lock and releases it
storage_load(t) ==
    /\ spc[t] = "idle"
    /\ nops < MaxOps
    /\ nops' = nops + 1
    /\ \E o \in {"append", "bulk", "update", "lock", "unlock"} :
       \E id \in RecIds, text \in Texts, n \in 1..2 :
         /\ o \in {"append", "bulk"} => (id = 1 /\ text = "")
         /\ o = "append" => (n = 1 /\ nextId + 1 <= MaxRows)
         /\ o = "bulk" => nextId + n <= MaxRows
         /\ o \in {"update", "lock", "unlock"} => n = 1
         /\ o \in {"lock", "unlock"} => text = ""
         /\ sop' = [sop EXCEPT ![t] = [op |-> o, id |-> id, text |-> text, n |-> n]]
         /\ nextId' = IF o \in {"append", "bulk"} THEN nextId + n ELSE nextId
         /\ sdf' = [sdf EXCEPT ![t] =
                      IF o \in {"append", "bulk"}
                      THEN <<load_state(stateFile), NewRecords(n)>>
                      ELSE <<load_state(stateFile), <<>> >>]
         /\ lockedText' = IF o = "unlock"
                          THEN [lockedText EXCEPT ![id] = NotLocked]
                          ELSE lockedText
    /\ spc' = [spc EXCEPT ![t] = "loaded"]
    /\ sres' = [sres EXCEPT ![t] = None]
    /\ UNCHANGED <<stateFile, lastLock, stage, appended, missed>>
    /\ UNCHANGED <<jmVars, rqVars, tkVars, imVars, lgVars, upVars, mdVars, sgVars, sfVars, plVars, rdVars>>

\* the rest of the operation: the change of the local DataFrame and
\* save_state(df), which takes the storage lock again (storage.py 35-36,
\* 42-47, 53-61, 67-75, 80-81)
storage_save(t) ==
    /\ spc[t] = "loaded"
    /\ LET o == sop[t].op
           id == sop[t].id
           df == sdf[t][1]
           refused == o = "update" /\ update_record_locked(df, id)
           df2 == CASE o = "append" -> append_record(df, sdf[t][2][1])
                    [] o = "bulk" -> bulk_import(df, sdf[t][2])
                    [] o = "update" -> update_record(df, id, sop[t].text)
                    [] o = "lock" -> lock_record(df, id)
                    [] o = "unlock" -> unlock_record(df, id)
           file2 == IF refused THEN stateFile ELSE save_state(df2)
           unlocking == \E u \in SThreads :
                           u # t /\ spc[u] = "loaded" /\ sop[u].op = "unlock"
                           /\ sop[u].id = id
       IN  /\ stateFile' = file2
           /\ sres' = [sres EXCEPT ![t] = IF refused THEN "403" ELSE "ok"]
           /\ missed' = (\/ missed
                          \/ /\ o \in {"update", "lock", "unlock"}
                             /\ df # <<>>
                             /\ mask(df, id) = {})
           /\ appended' = IF o \in {"append", "bulk"}
                          THEN appended \cup {sdf[t][2][k].id : k \in 1..sop[t].n}
                          ELSE appended
           /\ lastLock' = IF o \in {"lock", "unlock"} /\ HasRow(file2, id)
                          THEN [lastLock EXCEPT ![id] = o]
                          ELSE lastLock
           /\ lockedText' = IF o = "lock" /\ HasRow(file2, id) /\ ~unlocking
                            THEN [lockedText EXCEPT ![id] =
                                    RowOf(file2, id).correct_transcripts]
                            ELSE lockedText
           /\ stage' =
                IF ~HasRow(file2, id) THEN stage
                ELSE CASE o = "lock" -> [stage EXCEPT ![id] = 1]
                       [] o = "unlock" ->
                            [stage EXCEPT ![id] = IF @ = 2 THEN 3 ELSE 0]
                       [] o = "update" /\ refused ->
                            [stage EXCEPT ![id] = IF @ = 1 THEN 2 ELSE @]
                       [] o = "update" /\ ~refused ->
                            [stage EXCEPT ![id] = IF @ = 3 THEN 4 ELSE @]
                       [] OTHER -> stage
    /\ spc' = [spc EXCEPT ![t] = "idle"]
    /\ sop' = [sop EXCEPT ![t] = NoOp]
    /\ sdf' = [sdf EXCEPT ![t] = <<>>]
    /\ UNCHANGED <<nextId, nops>>
    /\ UNCHANGED <<jmVars, rqVars, tkVars, imVars, lgVars, upVars, mdVars, sgVars, sfVars, plVars, rdVars>>

StorageNext ==
    \/ \E t \in SThreads : storage_load(t)
    \/ \E t \in SThreads : storage_save(t)

StorageSpec == Init /\ [][StorageNext]_vars

\* one operation at a time: a caller enters only when nobody is inside
storage_load_alone(t) ==
    /\ \A u \in SThreads : spc[u] = "idle"
    /\ storage_load(t)

SeqStorageNext ==
    \/ \E t \in SThreads : storage_load_alone(t)
    \/ \E t \in SThreads : storage_save(t)

SeqStorageSpec == Init /\ [][SeqStorageNext]_vars

\* ------------------------------------------------- job progress and end
\* Python floats are IEEE 754 doubles: a 53-bit significand, every result
\* rounded to the nearest double, ties to the even significand.  A double is
\* kept here as its significand, five digits <<1, d1, d2, d3, d4>> with
\* d1..d4 in base 2^13 (1 + 4 * 13 = 53 bits), and the exponent e of its
\* first bit: the value is (2^52 + d1 * 2^39 + ... + d4) * 2^(e - 52).
Digit == 8192

RECURSIVE Pow2(_)
Pow2(n) == IF n = 0 THEN 1 ELSE 2 * Pow2(n - 1)

\* the exponent of a / b for a, b > 0: the e with 2^e <= a / b < 2^(e+1)
RECURSIVE Exponent(_, _)
Exponent(a, b) ==
    IF a >= 2 * b THEN Exponent(a, 2 * b) + 1
    ELSE IF a < b THEN Exponent(2 * a, b) - 1
    ELSE 0

\* significand + 1, carried from the last digit up
RECURSIVE AddOne(_, _)
AddOne(m, i) ==
    IF i = 1 THEN [m EXCEPT ![1] = @ + 1]
    ELSE IF m[i] + 1 < Digit THEN [m EXCEPT ![i] = @ + 1]
    ELSE AddOne([m EXCEPT ![i] = 0], i - 1)

\* round to nearest, ties to even: m is the significand cut off, guard the
\* first bit cut off, sticky whether any bit after it is 1
Round(m, e, guard, sticky) ==
    LET up == guard = 1 /\ (sticky \/ m[5] % 2 = 1)
        inc == IF up THEN AddOne(m, 5) ELSE m
    IN  IF inc[1] = 2
        THEN [m |-> <<1, 0, 0, 0, 0>>, e |-> e + 1]
        ELSE [m |-> inc, e |-> e]

\* a / b as a float, for integers a, b > 0: long division, 13 bits at a time
FloatDiv(a, b) ==
    LET e == Exponent(a, b)
        num == IF e < 0 THEN a * Pow2(0 - e) ELSE a
        den == IF e > 0 THEN b * Pow2(e) ELSE b
        r0 == num - den
        d1 == (r0 * Digit) \div den
        r1 == (r0 * Digit) % den
        d2 == (r1 * Digit) \div den
        r2 == (r1 * Digit) % den
        d3 == (r2 * Digit) \div den
        r3 == (r2 * Digit) % den
        d4 == (r3 * Digit) \div den
        r4 == (r3 * Digit) % den
    IN  Round(<<1, d1, d2, d3, d4>>, e, (2 * r4) \div den, (2 * r4) % den # 0)

\* x * c as a float, for a float x and an integer c with 1 < c < 2^13: the
\* exact product digit by digit, then cut back to 53 bits
FloatMul(x, c) ==
    LET p4 == x.m[5] * c
        p3 == x.m[4] * c + p4 \div Digit
        p2 == x.m[3] * c + p3 \div Digit
        p1 == x.m[2] * c + p2 \div Digit
        p0 == x.m[1] * c + p1 \div Digit
        k == Exponent(p0, 1)
        two_k == Pow2(k)
        n1 == ((p0 % two_k) * Digit + (p1 % Digit)) \div two_k
        n2 == ((p1 % two_k) * Digit + (p2 % Digit)) \div two_k
        n3 == ((p2 % two_k) * Digit + (p3 % Digit)) \div two_k
        n4 == ((p3 % two_k) * Digit + (p4 % Digit)) \div two_k
        cut == p4 % two_k
    IN  Round(<<1, n1, n2, n3, n4>>, x.e + k,
              cut \div (two_k \div 2), cut % (two_k \div 2) # 0)

\* int(x) for a float 0 < x < 2^27: the bits above the binary point
FloatInt(x) ==
    IF x.e < 0 THEN 0
    ELSE IF x.e <= 13 THEN (x.m[1] * Digit + x.m[2]) \div Pow2(13 - x.e)
    ELSE ((x.m[1] * Digit + x.m[2]) * Digit + x.m[3]) \div Pow2(26 - x.e)

\* update_progress lines 173-176:
\* int((processed / job.total_items) * 100), 0 when total_items is 0
progress_of(processed, total_items) ==
    IF total_items > 0
    THEN IF processed = 0 THEN 0
         ELSE FloatInt(FloatMul(FloatDiv(processed, total_items), 100))
    ELSE 0

\* update_progress lines 165-176; total = NoTotal stands for total=None
NoTotal == -1
update_progress(table, job_id, processed, total) ==
    IF job_id \notin DOMAIN table THEN table
    ELSE LET total_items == IF total # NoTotal THEN total
                            ELSE table[job_id].total_items
         IN [table EXCEPT ![job_id].processed_items = processed,
                          ![job_id].total_items = total_items,
                          ![job_id].progress = progress_of(processed, total_items)]

\* complete_job lines 183-190
complete_job(table, job_id, result) ==
    IF job_id \notin DOMAIN table THEN table
    ELSE [table EXCEPT ![job_id].status = COMPLETED,
                       ![job_id].completed_at = Stamp,
                       ![job_id].progress = 100,
                       ![job_id].result = result]

\* fail_job that marks the job cancelled
fail_job_cancelled(table, job_id, error) ==
    IF job_id \notin DOMAIN table THEN table
    ELSE [table EXCEPT ![job_id].status = CANCELLED,
                       ![job_id].completed_at = Stamp,
                       ![job_id].error = error]

\* fail_job that stores the error and leaves the status as it is
fail_job_keeps_status(table, job_id, error) ==
    IF job_id \notin DOMAIN table THEN table
    ELSE [table EXCEPT ![job_id].completed_at = Stamp,
                       ![job_id].error = error]

\* fail_job lines 201-207
fail_job(table, job_id, error) ==
    IF job_id \notin DOMAIN table THEN table
    ELSE [table EXCEPT ![job_id].status = FAILED,
                       ![job_id].completed_at = Stamp,
                       ![job_id].error = error]

\* release that leaves the active index as it is
release_never(index, table, job_id) == index

\* complete_job lines 192-194, fail_job lines 209-211
release(index, table, job_id) ==
    IF job_id \in DOMAIN table /\ index[table[job_id].job_type] = job_id
    THEN [index EXCEPT ![table[job_id].job_type] = NoJob]
    ELSE index

\* ------------------------------------------------------ transcription job
\* the job id drawn by the submitting request
TaskJob == 1
\* str(e) of the exceptions that leave transcription_task
LoadFailed == "Model loading failed: e"
StorageFailed == "append_record failed"
\* f"Another {job_type.value} job is already running"
StartRefused == "Another job is already running"

\* run_job_async line 246 for a transcription over n discovered files
\* (routes.py 139-145): create_job(job_id, TRANSCRIBE, len(files), metadata)
task_create_job ==
    /\ tpc = "unborn"
    /\ acquirable(Wrapper(TaskJob))
    /\ \E n \in 1..MaxFiles :
         /\ tfiles' = n
         /\ jobs' = create_job(jobs, TaskJob, TRANSCRIBE, n)
    /\ \E how \in SaveOutcomes : _save_jobs_call(jobs', how)
    /\ tpc' = "start_job"
    /\ UNCHANGED <<active, lock, tidx, tsegs, tseg, total_segments, raised>>
    /\ UNCHANGED <<rqVars, stVars, scVars, imVars, lgVars, upVars, mdVars, sgVars, sfVars, plVars, rdVars>>

\* wrapper lines 249-251 in the thread of the one job of this specification:
\* start_job lines 147-160 as they read, with the call of can_start_job on
\* line 151 giving its answer.  Whether that call returns is the subject of
\* Spec, where the lock is modelled; here the job's life after it is followed.
task_start_job ==
    /\ tpc = "start_job"
    /\ acquirable(Wrapper(TaskJob))
    /\ IF TaskJob \in DOMAIN jobs
          /\ can_start_job(jobs[TaskJob].job_type)[1]
       THEN /\ jobs' = [jobs EXCEPT ![TaskJob].status = RUNNING,
                                    ![TaskJob].started_at = Stamp]
            /\ active' = [active EXCEPT ![jobs[TaskJob].job_type] = TaskJob]
            /\ \E how \in SaveOutcomes : _save_jobs_call(jobs', how)
            /\ tpc' = "task_func"
            /\ UNCHANGED raised
       ELSE /\ tpc' = "except"
            /\ raised' = StartRefused
            /\ UNCHANGED <<jobs, active, jobsFile, saved>>
    /\ UNCHANGED <<lock, tfiles, tidx, tsegs, tseg, total_segments>>
    /\ UNCHANGED <<rqVars, stVars, scVars, imVars, lgVars, upVars, mdVars, sgVars, sfVars, plVars, rdVars>>

\* transcription_task lines 82-87: load_model, a ModelError is raised again
\* as Exception("Model loading failed: ...")
transcription_task_load_model ==
    /\ tpc = "task_func"
    /\ jobs[TaskJob].job_type = TRANSCRIBE
    /\ \E loaded \in BOOLEAN :
         /\ tpc' = IF loaded THEN "files" ELSE "except"
         /\ raised' = IF loaded THEN raised ELSE LoadFailed
    /\ tidx' = 0
    /\ total_segments' = 0
    /\ UNCHANGED <<tfiles, tsegs, tseg>>
    /\ UNCHANGED <<jmVars, rqVars, stVars, scVars, imVars, lgVars, upVars, mdVars, sgVars, sfVars, plVars, rdVars>>

\* transcription_task_file in which an AudioProcessingError leaves the task
transcription_task_file_abort ==
    /\ tpc = "files"
    /\ tidx < tfiles
    /\ \E n \in 0..MaxSegs :
         IF n = 0
         THEN /\ tpc' = "except"
              /\ raised' = "AudioProcessingError"
              /\ UNCHANGED <<tidx, tsegs, tseg, total_segments>>
         ELSE /\ tsegs' = n
              /\ tseg' = 0
              /\ total_segments' = total_segments + n
              /\ tpc' = "segments"
              /\ UNCHANGED <<tidx, raised>>
    /\ UNCHANGED tfiles
    /\ UNCHANGED <<jmVars, rqVars, stVars, scVars, imVars, lgVars, upVars, mdVars, sgVars, sfVars, plVars, rdVars>>

\* transcription_task lines 89-94 and 124-126: convert and segment file idx;
\* an AudioProcessingError is printed and the loop continues with the next
\* file
transcription_task_file ==
    /\ tpc = "files"
    /\ tidx < tfiles
    /\ \E n \in 0..MaxSegs :
         IF n = 0
         THEN \* convert_to_wav or segment_audio raised
              /\ tidx' = tidx + 1
              /\ UNCHANGED <<tpc, tsegs, tseg, total_segments>>
         ELSE /\ tsegs' = n
              /\ tseg' = 0
              /\ total_segments' = total_segments + n
              /\ tpc' = "segments"
              /\ UNCHANGED tidx
    /\ UNCHANGED <<tfiles, raised>>
    /\ UNCHANGED <<jmVars, rqVars, stVars, scVars, imVars, lgVars, upVars, mdVars, sgVars, sfVars, plVars, rdVars>>

\* transcription_task_segment whose ModelError handler appends no record
transcription_task_segment_no_marker ==
    /\ tpc = "segments"
    /\ \E outcome \in {"text", "ModelError", "append failed"} :
         LET record == Record(nextId + 1, <<tidx + 1, tseg + 1>>, ModelText,
                              ModelText, TaskJob)
         IN IF outcome = "append failed"
            THEN /\ tpc' = "except"
                 /\ raised' = StorageFailed
                 /\ UNCHANGED <<stateFile, nextId, tseg>>
            ELSE /\ stateFile' =
                      IF outcome = "text"
                      THEN save_state(append_record(load_state(stateFile),
                                                    record))
                      ELSE stateFile
                 /\ nextId' = nextId + 1
                 /\ tseg' = tseg + 1
                 /\ tpc' = IF tseg + 1 = tsegs
                           THEN "update_progress" ELSE "segments"
                 /\ UNCHANGED raised
    /\ UNCHANGED <<tfiles, tidx, tsegs, total_segments>>
    /\ UNCHANGED <<jmVars, rqVars, scVars, imVars, lgVars, upVars, mdVars, sgVars, sfVars, plVars, rdVars>>

\* transcription_task_segment whose ModelError handler copies the error
\* marker into correct_transcripts
transcription_task_segment_marker_copied ==
    /\ tpc = "segments"
    /\ \E outcome \in {"text", "ModelError", "append failed"} :
         LET text == IF outcome = "text" THEN ModelText ELSE ErrorMarker
             record == Record(nextId + 1, <<tidx + 1, tseg + 1>>, text, text,
                              TaskJob)
         IN IF outcome = "append failed"
            THEN /\ tpc' = "except"
                 /\ raised' = StorageFailed
                 /\ UNCHANGED <<stateFile, nextId, tseg>>
            ELSE /\ stateFile' =
                      save_state(append_record(load_state(stateFile), record))
                 /\ nextId' = nextId + 1
                 /\ tseg' = tseg + 1
                 /\ tpc' = IF tseg + 1 = tsegs
                           THEN "update_progress" ELSE "segments"
                 /\ UNCHANGED raised
    /\ UNCHANGED <<tfiles, tidx, tsegs, total_segments>>
    /\ UNCHANGED <<jmVars, rqVars, scVars, imVars, lgVars, upVars, mdVars, sgVars, sfVars, plVars, rdVars>>

\* transcription_task lines 96-123: transcribe one segment and append its
\* record; a ModelError is turned into a record holding the error marker;
\* an error of append_record is not caught and leaves the task
transcription_task_segment ==
    /\ tpc = "segments"
    /\ \E outcome \in {"text", "ModelError", "append failed"} :
         LET record ==
               IF outcome = "text"
               THEN Record(nextId + 1, <<tidx + 1, tseg + 1>>, ModelText,
                           ModelText, TaskJob)
               ELSE Record(nextId + 1, <<tidx + 1, tseg + 1>>, ErrorMarker,
                           "", TaskJob)
         IN IF outcome = "append failed"
            THEN /\ tpc' = "except"
                 /\ raised' = StorageFailed
                 /\ UNCHANGED <<stateFile, nextId, tseg>>
            ELSE /\ stateFile' =
                      save_state(append_record(load_state(stateFile), record))
                 /\ nextId' = nextId + 1
                 /\ tseg' = tseg + 1
                 /\ tpc' = IF tseg + 1 = tsegs
                           THEN "update_progress" ELSE "segments"
                 /\ UNCHANGED raised
    /\ UNCHANGED <<tfiles, tidx, tsegs, total_segments>>
    /\ UNCHANGED <<jmVars, rqVars, scVars, imVars, lgVars, upVars, mdVars, sgVars, sfVars, plVars, rdVars>>

\* transcription_task line 129: update_progress(job_id, idx + 1, len(files))
transcription_task_progress ==
    /\ tpc = "update_progress"
    /\ acquirable(Wrapper(TaskJob))
    /\ jobs' = update_progress(jobs, TaskJob, tidx + 1, tfiles)
    /\ \E how \in SaveOutcomes : _save_jobs_call(jobs', how)
    /\ tidx' = tidx + 1
    /\ tpc' = "files"
    /\ UNCHANGED <<active, lock, tfiles, tsegs, tseg, total_segments, raised>>
    /\ UNCHANGED <<rqVars, stVars, scVars, imVars, lgVars, upVars, mdVars, sgVars, sfVars, plVars, rdVars>>

\* transcription_task lines 131-135 and wrapper line 255: the task returns
\* its result and the wrapper calls complete_job
wrapper_complete_job ==
    /\ tpc = "files"
    /\ tidx = tfiles
    /\ acquirable(Wrapper(TaskJob))
    /\ jobs' = complete_job(jobs, TaskJob,
                            <<tfiles, total_segments, total_segments>>)
    /\ active' = release(active, jobs, TaskJob)
    /\ \E how \in SaveOutcomes : _save_jobs_call(jobs', how)
    /\ tpc' = "done"
    /\ UNCHANGED <<lock, tfiles, tidx, tsegs, tseg, total_segments, raised>>
    /\ UNCHANGED <<rqVars, stVars, scVars, imVars, lgVars, upVars, mdVars, sgVars, sfVars, plVars, rdVars>>

\* wrapper lines 256-257: the task raised, fail_job(job_id, str(e))
wrapper_fail_job ==
    /\ tpc = "except"
    /\ acquirable(Wrapper(TaskJob))
    /\ jobs' = fail_job(jobs, TaskJob, raised)
    /\ active' = release(active, jobs, TaskJob)
    /\ \E how \in SaveOutcomes : _save_jobs_call(jobs', how)
    /\ tpc' = "done"
    /\ UNCHANGED <<lock, tfiles, tidx, tsegs, tseg, total_segments, raised>>
    /\ UNCHANGED <<rqVars, stVars, scVars, imVars, lgVars, upVars, mdVars, sgVars, sfVars, plVars, rdVars>>

TaskNext ==
    \/ task_create_job
    \/ task_start_job
    \/ transcription_task_load_model
    \/ transcription_task_file
    \/ transcription_task_segment
    \/ transcription_task_progress
    \/ wrapper_complete_job
    \/ wrapper_fail_job

TaskSpec == Init /\ [][TaskNext]_vars

\* a reviewer's request while the transcription job runs: POST /api/records,
\* /api/records/<id>/lock or /unlock (routes.py 295, 307, 317), up to the
\* return of load_state
review_load(t) ==
    /\ nops < MaxReviewOps
    /\ storage_load_alone(t)
    /\ sop'[t].op \in {"update", "lock", "unlock"}

\* the transcription job with reviewers' requests, one at a time, around its
\* append_record calls
ReviewNext ==
    \/ TaskNext
    \/ \E t \in SThreads : review_load(t)
    \/ \E t \in SThreads : storage_save(t)

ReviewSpec == Init /\ [][ReviewNext]_vars

\* ------------------------------------------------------ manual import job
\* str(e) of the exceptions that leave import_task (routes.py 229-232)
ValidationFailed ==
    "Import validation error: Excel must contain filename and transcription columns"
ImportFailed == "Import failed: e"

\* import_manual lines 102-115: one record per row of the spreadsheet, with
\* fresh ids; correct_transcripts is the row's own when the column is there
\* ("a" here) and the transcription otherwise
import_manual(xl, job_id) ==
    [k \in 1..xl.rows |->
        Record(nextId + k, <<0, nextId + k>>, ModelText,
               IF xl.correct_transcripts THEN "a" ELSE ModelText, job_id)]

\* run_job_async line 246 for a manual import (routes.py 236-241):
\* create_job(job_id, MANUAL_IMPORT, 0, metadata); the spreadsheet at
\* excel_path is whatever the client pointed at
import_create_job ==
    /\ tpc = "unborn"
    /\ acquirable(Wrapper(TaskJob))
    /\ excel' \in ExcelFiles
    /\ jobs' = create_job(jobs, TaskJob, MANUAL_IMPORT, 0)
    /\ \E how \in SaveOutcomes : _save_jobs_call(jobs', how)
    /\ tpc' = "start_job"
    /\ UNCHANGED <<active, lock, tfiles, tidx, tsegs, tseg, total_segments,
                   raised, idf>>
    /\ UNCHANGED <<rqVars, stVars, scVars, lgVars, upVars, mdVars, sgVars, sfVars, plVars, rdVars>>

\* import_manual with the test of the required columns left out: a row is
\* then read by row["filename"] and row["transcription"], a KeyError
import_task_unvalidated ==
    /\ tpc = "task_func"
    /\ jobs[TaskJob].job_type = MANUAL_IMPORT
    /\ IF ~excel.readable
          \/ (~(excel.filename /\ excel.transcription) /\ excel.rows > 0)
       THEN /\ tpc' = "except"
            /\ raised' = ImportFailed
            /\ UNCHANGED <<idf, nextId>>
       ELSE /\ idf' = <<load_state(stateFile), import_manual(excel, TaskJob)>>
            /\ nextId' = nextId + excel.rows
            /\ tpc' = "bulk_import"
            /\ UNCHANGED raised
    /\ UNCHANGED <<stateFile, excel, tfiles, tidx, tsegs, tseg,
                   total_segments>>
    /\ UNCHANGED <<jmVars, rqVars, scVars, lgVars, upVars, mdVars, sgVars, sfVars, plVars, rdVars>>

\* import_task up to the return of load_state in bulk_import (routes.py
\* 226-232, storage.py 98-115 and 79): read the spreadsheet, test the
\* required columns, build the records
import_task ==
    /\ tpc = "task_func"
    /\ jobs[TaskJob].job_type = MANUAL_IMPORT
    /\ IF ~excel.readable
       THEN \* pd.read_excel raised
            /\ tpc' = "except"
            /\ raised' = ImportFailed
            /\ UNCHANGED <<idf, nextId>>
       ELSE IF ~(excel.filename /\ excel.transcription)
       THEN \* lines 100-101: ValueError
            /\ tpc' = "except"
            /\ raised' = ValidationFailed
            /\ UNCHANGED <<idf, nextId>>
       ELSE /\ idf' = <<load_state(stateFile), import_manual(excel, TaskJob)>>
            /\ nextId' = nextId + excel.rows
            /\ tpc' = "bulk_import"
            /\ UNCHANGED raised
    /\ UNCHANGED <<stateFile, excel, tfiles, tidx, tsegs, tseg,
                   total_segments>>
    /\ UNCHANGED <<jmVars, rqVars, scVars, lgVars, upVars, mdVars, sgVars, sfVars, plVars, rdVars>>

\* the rest of bulk_import (storage.py 80-81) and the return of import_task;
\* an error of save_state leaves the task as "Import failed: ..."
import_task_bulk_import ==
    /\ tpc = "bulk_import"
    /\ \E ok \in BOOLEAN :
         IF ok
         THEN /\ stateFile' = save_state(bulk_import(idf[1], idf[2]))
              /\ tpc' = "return"
              /\ UNCHANGED raised
         ELSE /\ tpc' = "except"
              /\ raised' = ImportFailed
              /\ UNCHANGED stateFile
    /\ UNCHANGED <<nextId, excel, idf, tfiles, tidx, tsegs, tseg,
                   total_segments>>
    /\ UNCHANGED <<jmVars, rqVars, scVars, lgVars, upVars, mdVars, sgVars, sfVars, plVars, rdVars>>

\* wrapper line 255 for an import: complete_job(job_id,
\* {"records_imported": len(records)})
wrapper_complete_import ==
    /\ tpc = "return"
    /\ acquirable(Wrapper(TaskJob))
    /\ jobs' = complete_job(jobs, TaskJob, <<Len(idf[2])>>)
    /\ active' = release(active, jobs, TaskJob)
    /\ \E how \in SaveOutcomes : _save_jobs_call(jobs', how)
    /\ tpc' = "done"
    /\ UNCHANGED <<lock, tfiles, tidx, tsegs, tseg, total_segments, raised>>
    /\ UNCHANGED <<rqVars, stVars, scVars, imVars, lgVars, upVars, mdVars, sgVars, sfVars, plVars, rdVars>>

\* a reviewer's storage operation while an import job is around
reviewer_load(t) ==
    /\ nops < MaxImportOps
    /\ storage_load_alone(t)

\* the import job with reviewers' storage operations, one at a time, around
\* it
ImportNext ==
    \/ import_create_job
    \/ task_start_job
    \/ import_task
    \/ import_task_bulk_import
    \/ wrapper_complete_import
    \/ wrapper_fail_job
    \/ \E t \in SThreads : reviewer_load(t)
    \/ \E t \in SThreads : storage_save(t)

ImportSpec == Init /\ [][ImportNext]_vars

\* ----------------------------------------------------------- legacy app
\* The web process and every worker process of the task queue import app.py
\* and have their own globals df, lock and last_sent_row (app.py 28-40); the
\* spreadsheet file is what they share.  A lock is held inside one process
\* only, so it orders nothing between the web process and a worker.

\* DataFrame.to_excel / pd.read_excel: a missing value and an empty text are
\* both written as an empty cell, and an empty cell is read as missing
to_excel(d) ==
    [i \in 1..Len(d) |->
        [d[i] EXCEPT !.correct_transcripts = to_csv_cell(@)]]
read_excel(file) ==
    [i \in 1..Len(file) |->
        [file[i] EXCEPT !.correct_transcripts = read_csv_cell(@)]]

\* new_data of process_audio (app.py 139-143) for chunk k of worker w
new_data(w, k) ==
    [filename |-> <<w, k>>, transcription |-> ModelText,
     correct_transcripts |-> ModelText]

\* redis.incr(name, amount): a missing key counts from 0
redis_incr(value, amount) == IF value = NoKey THEN amount ELSE value + amount

\* int(redis.get(name) or 0)
redis_get_or_0(value) == IF value = NoKey THEN 0 ELSE value

\* process_audio lines 128-132: a task taken by worker w cuts its file into
\* n chunks and adds n to total_files
process_audio_crop(w, n) ==
    /\ wpc[w] = "idle"
    /\ Len(wdf[w]) + n <= MaxChunks
    /\ total_files' = redis_incr(total_files, n)
    /\ all_crops' = [all_crops EXCEPT ![w] = n]
    /\ wpc' = [wpc EXCEPT ![w] = IF n = 0 THEN "idle" ELSE "loop"]
    /\ UNCHANGED <<processed_files, gp_total, gp_answer>>
    /\ UNCHANGED <<jmVars, rqVars, stVars, scVars, tkVars, imVars, lgVars, upVars, mdVars, sgVars, sfVars, plVars>>

\* process_audio lines 134-148: the row is put at the end of the worker's
\* df and to_excel opens the file, which truncates it
process_audio_append(w) ==
    /\ wpc[w] = "loop"
    /\ all_crops[w] > 0
    /\ writing = 0
    /\ Len(wdf[w]) < MaxChunks
    /\ wdf' = [wdf EXCEPT ![w] = Append(@, new_data(w, Len(@) + 1))]
    /\ writing' = w
    /\ wpc' = [wpc EXCEPT ![w] = "to_excel"]
    /\ UNCHANGED <<xlsx, legacy_df, last_sent_row, latest, caught_up,
                   returned>>
    /\ UNCHANGED <<total_files, processed_files, all_crops, gp_total,
                   gp_answer>>
    /\ UNCHANGED <<jmVars, rqVars, stVars, scVars, tkVars, imVars, upVars, mdVars, sgVars, sfVars, plVars>>

\* process_audio line 148, the end of to_excel: the file holds the worker's
\* df
process_audio_written(w) ==
    /\ writing = w
    /\ xlsx' = to_excel(wdf[w])
    /\ writing' = 0
    /\ wpc' = [wpc EXCEPT ![w] = "incr"]
    /\ UNCHANGED <<legacy_df, last_sent_row, latest, caught_up, returned,
                   wdf>>
    /\ UNCHANGED <<total_files, processed_files, all_crops, gp_total,
                   gp_answer>>
    /\ UNCHANGED <<jmVars, rqVars, stVars, scVars, tkVars, imVars, upVars, mdVars, sgVars, sfVars, plVars>>

\* process_audio line 152: the chunk is counted in processed_files; after
\* the last chunk the loop is over and the task ends (lines 154-157)
process_audio_incr(w) ==
    /\ wpc[w] = "incr"
    /\ processed_files' = redis_incr(processed_files, 1)
    /\ all_crops' = [all_crops EXCEPT ![w] = @ - 1]
    /\ wpc' = [wpc EXCEPT ![w] = IF all_crops[w] = 1 THEN "idle" ELSE "loop"]
    /\ UNCHANGED <<total_files, gp_total, gp_answer>>
    /\ UNCHANGED <<jmVars, rqVars, stVars, scVars, tkVars, imVars, lgVars, upVars, mdVars, sgVars, sfVars, plVars>>

\* GET /get-progress line 265: the first redis.get
get_progress_total ==
    /\ gp_total = NotRead
    /\ gp_total' = redis_get_or_0(total_files)
    /\ UNCHANGED <<total_files, processed_files, all_crops, wpc, gp_answer>>
    /\ UNCHANGED <<jmVars, rqVars, stVars, scVars, tkVars, imVars, lgVars, upVars, mdVars, sgVars, sfVars, plVars>>

\* GET /get-progress lines 266-271: the second redis.get and the answer,
\* (processed_files / total_files) * 100, or 0 when total_files is 0
get_progress ==
    /\ gp_total # NotRead
    /\ gp_answer' = IF gp_total = 0
                    THEN Progress(0, 1)
                    ELSE Progress(redis_get_or_0(processed_files) * 100,
                                  gp_total)
    /\ gp_total' = NotRead
    /\ UNCHANGED <<total_files, processed_files, all_crops, wpc>>
    /\ UNCHANGED <<jmVars, rqVars, stVars, scVars, tkVars, imVars, lgVars, upVars, mdVars, sgVars, sfVars, plVars>>

\* get_latest_data lines 92-96 with the comparison of the cursor left out
get_latest_data_no_sentinel(d) == FALSE

\* get_latest_data line 93: all_done
all_done(d) == last_sent_row = Len(d)

\* GET /get-latest-data (app.py 79-100).  The file is read when it exists;
\* a read that raises (the file is being rewritten) keeps the old df.
get_latest_data ==
    LET d == IF xlsx # <<>> /\ writing = 0
             THEN read_excel(xlsx) ELSE legacy_df
        new_rows == SubSeq(d, last_sent_row + 1, Len(d))
    IN  /\ legacy_df' = d
        /\ IF all_done(d)
           THEN /\ latest' = All_Records_Processed
                /\ UNCHANGED <<last_sent_row, returned>>
           ELSE /\ latest' = NewRows(new_rows)
                /\ last_sent_row' = Len(d)
                /\ returned' = returned \cup
                      {new_rows[i].filename : i \in 1..Len(new_rows)}
        /\ caught_up' =
              [ok |-> all_done(d) /\ writing = 0,
               table |-> d,
               one_more |-> /\ caught_up.ok
                            /\ writing = 0
                            /\ Len(d) = Len(caught_up.table) + 1
                            /\ SubSeq(d, 1, Len(d) - 1) = caught_up.table]
        /\ UNCHANGED <<xlsx, writing, wdf>>
        /\ UNCHANGED <<jmVars, rqVars, stVars, scVars, tkVars, imVars, upVars, mdVars, sgVars, sfVars, plVars, rdVars>>

\* POST /save-edits (app.py 288-301): every row of the web process's df
\* with that filename gets the text, and the df is written to the file
save_edits(filename, corrected_transcription) ==
    /\ writing = 0
    /\ legacy_df' =
          [i \in 1..Len(legacy_df) |->
              IF legacy_df[i].filename = filename
              THEN [legacy_df[i] EXCEPT
                      !.correct_transcripts = corrected_transcription]
              ELSE legacy_df[i]]
    /\ xlsx' = to_excel(legacy_df')
    /\ UNCHANGED <<writing, last_sent_row, latest, caught_up, returned, wdf>>
    /\ UNCHANGED <<jmVars, rqVars, stVars, scVars, tkVars, imVars, upVars, mdVars, sgVars, sfVars, plVars, rdVars>>

LegacyNext ==
    \/ \E w \in Workers, n \in 0..MaxChunks : process_audio_crop(w, n)
    \/ \E w \in Workers : process_audio_append(w)
    \/ \E w \in Workers : process_audio_written(w)
    \/ \E w \in Workers : process_audio_incr(w)
    \/ get_latest_data
    \/ \E w \in Workers, k \in 1..MaxChunks, text \in Texts :
          save_edits(<<w, k>>, text)

LegacySpec == Init /\ [][LegacyNext]_vars

\* the worker processes beside a client polling /get-progress
CounterNext ==
    \/ \E w \in Workers, n \in 0..MaxChunks : process_audio_crop(w, n)
    \/ \E w \in Workers : process_audio_append(w)
    \/ \E w \in Workers : process_audio_written(w)
    \/ \E w \in Workers : process_audio_incr(w)
    \/ get_progress_total
    \/ get_progress

CounterSpec == Init /\ [][CounterNext]_vars

\* ------------------------------------------------------- process restart
\* _load_jobs lines 80-103: every entry of the history file becomes a
\* JobInfo again, field by field; nothing else is rebuilt
_load_jobs(file) ==
    IF file.text # "json"
    THEN \* no file, or json.load raised and the exception was swallowed
         <<>>
    ELSE [j \in {job_data.job_id : job_data \in file.data} |->
            LET job_data == CHOOSE d \in file.data : d.job_id = j IN
            [job_type |-> job_data.job_type,
             status |-> job_data.status,
             progress |-> job_data.progress,
             total_items |-> job_data.total_items,
             processed_items |-> job_data.processed_items,
             created_at |-> job_data.created_at,
             started_at |-> from_json(job_data.started_at),
             completed_at |-> from_json(job_data.completed_at),
             error |-> from_json(job_data.error),
             result |-> job_data.result,
             metadata |-> job_data.metadata]]

\* the process ends at any moment, its threads with it (the wrapper threads
\* are daemon threads, line 259); the next process builds its JobManager by
\* __init__ lines 72-76: an empty table, a new lock, an empty active index,
\* then _load_jobs
restart ==
    /\ tpc \notin {"unborn", "killed"}
    /\ jobs' = _load_jobs(jobsFile)
    /\ active' = [t \in JobType |-> NoJob]
    /\ lock' = NoThread
    /\ tpc' = "killed"
    /\ UNCHANGED <<jobsFile, saved, tfiles, tidx, tsegs, tseg, total_segments,
                   raised>>
    /\ UNCHANGED <<rqVars, stVars, scVars, imVars, lgVars, upVars, mdVars, sgVars, sfVars, plVars, rdVars>>

\* the life of one transcription job, cut short or followed by a restart
RestartNext ==
    \/ TaskNext
    \/ restart

RestartSpec == Init /\ [][RestartNext]_vars

\* --------------------------------------------------- update_progress calls
\* update_progress(job_id, processed, total) called on the job, pending or
\* running, with any counts (job_manager.py 162-178): the body under the
\* lock and the save
update_progress_call ==
    /\ tpc \in {"start_job", "task_func"}
    /\ acquirable(Wrapper(TaskJob))
    /\ \E job_id \in {TaskJob, TaskJob + 1}, processed \in 0..MaxTotal,
          total \in {NoTotal} \cup 0..MaxTotal :
         /\ jobs' = update_progress(jobs, job_id, processed, total)
         /\ update_args' = <<job_id, processed, total>>
         /\ IF job_id \in DOMAIN jobs
            THEN \E how \in SaveOutcomes : _save_jobs_call(jobs', how)
            ELSE \* lines 165-166: return
                 UNCHANGED <<jobsFile, saved>>
    /\ tpc' = "updated"
    /\ UNCHANGED <<active, lock, tfiles, tidx, tsegs, tseg, total_segments,
                   raised>>
    /\ UNCHANGED <<rqVars, stVars, scVars, imVars, lgVars, mdVars, sgVars, sfVars, plVars, rdVars>>

\* one update_progress call on a job of either type, before or after its
\* start
ProgressNext ==
    \/ task_create_job
    \/ import_create_job
    \/ task_start_job
    \/ update_progress_call

ProgressSpec == Init /\ [][ProgressNext]_vars

\* ------------------------------------------------- job manager singleton
\* get_job_manager line 273, the test made without the lock: None is left
\* to the locked part, an instance is returned
get_job_manager_first_check(g) ==
    /\ gpc[g] = "idle"
    /\ Len(gret[g]) < MaxGets
    /\ gpc' = [gpc EXCEPT ![g] = IF _job_manager = 0 THEN "with" ELSE "return"]
    /\ UNCHANGED <<_job_manager, _manager_lock, gret, constructed>>
    /\ UNCHANGED <<jmVars, rqVars, stVars, scVars, tkVars, imVars, lgVars, rdVars,
                   upVars, mdVars, sfVars,
                   plVars>>

\* line 274: with _manager_lock, a threading.Lock
get_job_manager_with(g) ==
    /\ gpc[g] = "with"
    /\ _manager_lock = 0
    /\ _manager_lock' = g
    /\ gpc' = [gpc EXCEPT ![g] = "locked"]
    /\ UNCHANGED <<_job_manager, gret, constructed>>
    /\ UNCHANGED <<jmVars, rqVars, stVars, scVars, tkVars, imVars, lgVars, rdVars,
                   upVars, mdVars, sfVars,
                   plVars>>

\* the locked part without its test
second_check_skipped(manager) == TRUE

\* line 275: if _job_manager is None
second_check(manager) == manager = 0

\* lines 275-276 and the end of the with block: the test under the lock,
\* JobManager() (__init__ lines 72-76) and the assignment of the global
get_job_manager_locked(g) ==
    /\ gpc[g] = "locked"
    /\ IF second_check(_job_manager)
       THEN /\ constructed' = constructed + 1
            /\ _job_manager' = constructed + 1
            /\ jobs' = _load_jobs(jobsFile)
            /\ active' = [t \in JobType |-> NoJob]
            /\ lock' = NoThread
       ELSE UNCHANGED <<_job_manager, constructed, jobs, active, lock>>
    /\ _manager_lock' = 0
    /\ gpc' = [gpc EXCEPT ![g] = "return"]
    /\ UNCHANGED <<jobsFile, saved, gret>>
    /\ UNCHANGED <<rqVars, stVars, scVars, tkVars, imVars, lgVars, rdVars,
                   upVars, mdVars, sfVars,
                   plVars>>

\* line 277: return _job_manager
get_job_manager_return(g) ==
    /\ gpc[g] = "return"
    /\ gret' = [gret EXCEPT ![g] = Append(@, _job_manager)]
    /\ gpc' = [gpc EXCEPT ![g] = "idle"]
    /\ UNCHANGED <<_job_manager, _manager_lock, constructed>>
    /\ UNCHANGED <<jmVars, rqVars, stVars, scVars, tkVars, imVars, lgVars, rdVars,
                   upVars, mdVars, sfVars,
                   plVars>>

SingletonNext ==
    \/ \E g \in GThreads : get_job_manager_first_check(g)
    \/ \E g \in GThreads : get_job_manager_with(g)
    \/ \E g \in GThreads : get_job_manager_locked(g)
    \/ \E g \in GThreads : get_job_manager_return(g)

SingletonSpec == Init /\ [][SingletonNext]_vars

\* ----------------------------------------------------------- segment files
\* segment_audio lines 91-116: ffmpeg writes the segments of a file as
\* 000.wav, 001.wav, ... ("%03d.wav": at least three digits) and the list
\* returned is sorted(target_dir.glob("*.wav")), paths compared as strings.
\* A name is kept as the sequence of its characters up to the dot: a digit
\* as its value and the dot, which sorts before every digit, as -1.
PadWidth == 3
Dot == -1

RECURSIVE DecimalDigits(_)
DecimalDigits(k) ==
    IF k < 10 THEN <<k>> ELSE Append(DecimalDigits(k \div 10), k % 10)

RECURSIVE ZeroPad(_, _)
ZeroPad(digits, width) ==
    IF Len(digits) >= width THEN digits ELSE ZeroPad(<<0>> \o digits, width)

\* "%03d.wav" % k
SegmentName(k) == Append(ZeroPad(DecimalDigits(k), PadWidth), Dot)

\* str.__lt__: the first differing character decides, a proper prefix is
\* smaller
RECURSIVE StrLess(_, _)
StrLess(a, b) ==
    IF b = <<>> THEN FALSE
    ELSE IF a = <<>> THEN TRUE
    ELSE IF Head(a) # Head(b) THEN Head(a) < Head(b)
    ELSE StrLess(Tail(a), Tail(b))

\* the index (from 1) of segment file number k in sorted(glob) over the
\* files 0..n-1
sorted_index(n, k) ==
    1 + Cardinality({d \in 0..(n - 1) :
                       StrLess(SegmentName(d), SegmentName(k))})

\* ffmpeg has written one more segment file of the audio file: where the
\* list segment_audio returns puts it
segment_audio_written ==
    /\ seg_n < MaxSegFiles
    /\ seg_n' = seg_n + 1
    /\ seg_pos' = sorted_index(seg_n + 1, seg_n)
    /\ UNCHANGED <<jmVars, rqVars, stVars, scVars, tkVars, imVars, lgVars, rdVars,
                   upVars, mdVars, sgVars,
                   plVars>>

SegmentNext == segment_audio_written

SegmentSpec == Init /\ [][SegmentNext]_vars

\* ------------------------------------------------------------ model cache
\* functools.lru_cache(maxsize=1) around load_model (model.py 13): a lookup
\* by the argument, 0 for a miss
lru_cache_get(cache, model_name) ==
    IF \E i \in 1..Len(cache) : cache[i].name = model_name
    THEN cache[CHOOSE i \in 1..Len(cache) : cache[i].name = model_name].instance
    ELSE 0

\* a cache that keeps every entry
lru_cache_put_unbounded(cache, entry) == Append(cache, entry)

\* lru_cache(maxsize=1) storing the result of a miss: a full cache drops its
\* oldest entry
lru_cache_put(cache, entry) ==
    IF Len(cache) >= 1 THEN Append(Tail(cache), entry)
    ELSE Append(cache, entry)

\* load_model(model_name), lines 13-31.  A hit returns the cached tuple and
\* the body does not run.  On a miss the body runs: it raises ModelError for
\* an empty name or when from_pretrained fails, and an exception stores
\* nothing; a result is stored and returned.  The tuple built by run number
\* n of the body is instance n; a call that raised returned 0.
load_model(model_name) ==
    /\ Len(calls) < MaxLoads
    /\ LET hit == lru_cache_get(model_cache, model_name) IN
       IF hit # 0
       THEN /\ calls' = Append(calls, [name |-> model_name, instance |-> hit])
            /\ UNCHANGED <<model_cache, body_runs>>
       ELSE /\ body_runs' = body_runs + 1
            /\ \E loaded \in BOOLEAN :
                 IF loaded /\ model_name # ""
                 THEN /\ model_cache' =
                           lru_cache_put(model_cache,
                                         [name |-> model_name,
                                          instance |-> body_runs + 1])
                      /\ calls' = Append(calls, [name |-> model_name,
                                                 instance |-> body_runs + 1])
                 ELSE /\ calls' = Append(calls, [name |-> model_name,
                                                 instance |-> 0])
                      /\ UNCHANGED model_cache
    /\ UNCHANGED <<jmVars, rqVars, stVars, scVars, tkVars, imVars, lgVars, rdVars,
                   upVars, sgVars, sfVars,
                   plVars>>

ModelNext == \E model_name \in ModelNames : load_model(model_name)

ModelSpec == Init /\ [][ModelNext]_vars

Next ==
    \/ \E r \in JobIds : start_transcription(r)
    \/ \E r \in JobIds : manual_import(r)
    \/ \E t \in Threads : can_start_job_call(t)
    \/ \E r \in JobIds : count_files(r)
    \/ \E r \in JobIds : run_job_async_create(r)
    \/ \E r \in JobIds : run_job_async_start(r)
    \/ \E j \in JobIds : start_job(j)

Spec == Init /\ [][Next]_vars

\* ------------------------------------------------------------ job polling
\* GET /api/jobs/<job_id> (routes.py 259-263): the handler is entered and
\* calls get_job
get_job_status ==
    /\ ppc = "idle"
    /\ ppc' = "get_job"
    /\ UNCHANGED <<jmVars, rqVars, stVars, scVars, tkVars, imVars, lgVars, rdVars,
                   upVars, mdVars, sgVars, sfVars>>

\* get_job lines 217-218 and the answer of the route (264-266): the lock is
\* taken, the table read, the lock released
get_job ==
    /\ ppc = "get_job"
    /\ acquirable(NoThread)
    /\ ppc' = "idle"
    /\ UNCHANGED <<jmVars, rqVars, stVars, scVars, tkVars, imVars, lgVars, rdVars,
                   upVars, mdVars, sgVars, sfVars>>

\* the submissions and their wrapper threads with a client polling a job
PollNext ==
    \/ Next
    \/ get_job_status
    \/ get_job

\* every step of thread t
Step(t) ==
    \/ t[1] = "req" /\ ( \/ start_transcription(t[2]) \/ manual_import(t[2])
                         \/ count_files(t[2]) \/ run_job_async_create(t[2])
                         \/ run_job_async_start(t[2]) )
    \/ can_start_job_call(t)
    \/ t[1] = "wrapper" /\ start_job(t[2])

\* the interpreter schedules every runnable thread again and again
FairSpec == Spec /\ \A t \in Threads : WF_vars(Step(t))

\* the same scheduling with the polling request, whose handler thread is
\* scheduled like every other
PollSpec ==
    /\ Init /\ [][PollNext]_vars
    /\ \A t \in Threads : WF_vars(Step(t))
    /\ WF_vars(get_job)

\* ------------------------------------------------------------------ claims
Terminal == {COMPLETED, FAILED}
JobsOfType(tt) == {j \in DOMAIN jobs : jobs[j].job_type = tt}
RunningJobs(tt) == {j \in JobsOfType(tt) : jobs[j].status = RUNNING}

\* C1: in every reachable state at most one job of each job type has
\* status running.
C1_AtMostOneRunning ==
    \A tt \in JobType : Cardinality(RunningJobs(tt)) <= 1

\* two jobs of one type were created and both wrapper threads have called
\* start_job: one holds the lock inside it, the other waits for the lock
C1_Witness ==
    \E j1, j2 \in DOMAIN jobs :
        /\ j1 # j2
        /\ jobs[j1].job_type = jobs[j2].job_type
        /\ pc[Wrapper(j1)] = "can_start_job"
        /\ lock = Wrapper(j1)
        /\ pc[Wrapper(j2)] = "start_job"

\* C2: every job created by run_job_async eventually reaches completed or
\* failed, under fair scheduling of the threads.
C2_EveryJobTerminates ==
    \A j \in JobIds :
        (j \in DOMAIN jobs) ~> (j \in DOMAIN jobs /\ jobs[j].status \in Terminal)

\* C3: start_job on an existing pending job does its exclusion check and its
\* transition under one acquisition of the lock and returns: no thread asks
\* for the lock while it holds it, a call that returned true left the job
\* running and registered as the active job of its type, a call that
\* returned false left it pending.
C3_StartJobOneAcquisition ==
    \A j \in JobIds :
        LET t == Wrapper(j) IN
        /\ ~(pc[t] = "can_start_job" /\ lock = t)
        /\ pc[t] = "task_func" =>
              /\ jobs[j].status = RUNNING
              /\ jobs[j].started_at = Stamp
              /\ active[jobs[j].job_type] = j
        /\ pc[t] = "fail_job" => jobs[j].status = PENDING

\* C5: while a job accepted by a submission route has not reached completed
\* or failed, a further submission of the same type creates no second job
\* record.
C5_NoSecondActiveRecord ==
    \A j1, j2 \in DOMAIN jobs :
        (j1 # j2 /\ jobs[j1].job_type = jobs[j2].job_type)
            => (jobs[j1].status \in Terminal \/ jobs[j2].status \in Terminal)

\* C9: a submission answered 400 or 409 has created no job record and
\* started no background thread, and the step that answers it leaves the
\* job table, the active index and the job history file as they were.
C9_ClientErrorSchedulesNothing ==
    /\ [](\A r \in JobIds :
            resp[r] \in {400, 409} =>
                (r \notin DOMAIN jobs /\ pc[Wrapper(r)] = "unborn"))
    /\ [][\A r \in JobIds :
            (resp[r] = 0 /\ resp'[r] \in {400, 409}) =>
                (jobs' = jobs /\ active' = active /\ jobsFile' = jobsFile)]_vars

\* a transcription request was answered 400 for an empty folder while the
\* job of an earlier request is in the table
C9_Witness ==
    \E r1, r2 \in JobIds :
        /\ resp[r1] = 400
        /\ reqType[r1] = TRANSCRIBE
        /\ r2 \in DOMAIN jobs
        /\ r1 \notin DOMAIN jobs

\* C6: the table after concurrent storage operations reflects the effect of
\* each of them: once every caller has returned, every record whose
\* append_record or bulk_import returned is a row of the table.
C6_NoLostAppend ==
    (\A t \in SThreads : spc[t] = "idle")
        => \A id \in appended : HasRow(stateFile, id)

\* C7: in a sequential run, update_record on a row whose last lock/unlock
\* call was lock_record is refused (403) and leaves the table as it was; on
\* a row whose last such call was unlock_record it succeeds, the row's
\* correct_transcripts holds the text and its locked_at is absent.
C7_LockBlocksEdit ==
    [][\A t \in SThreads :
        (/\ spc[t] = "loaded"
         /\ spc'[t] = "idle"
         /\ sop[t].op = "update"
         /\ HasRow(stateFile, sop[t].id))
        => LET id == sop[t].id IN
           /\ lastLock[id] = "lock" =>
                (sres'[t] = "403" /\ stateFile' = stateFile)
           /\ lastLock[id] = "unlock" =>
                /\ sres'[t] = "ok"
                /\ HasRow(stateFile', id)
                /\ RowOf(stateFile', id).correct_transcripts
                     = to_csv_cell(sop[t].text)
                /\ RowOf(stateFile', id).locked_at = ""
                /\ RowOf(stateFile', id).locked = "False"]_vars

\* a row was locked, an edit of it was refused, it was unlocked and an edit
\* of it was then accepted
C7_Witness == \E id \in RecIds : stage[id] = 4

\* C8: once lock_record(id) has returned, and until unlock_record(id) is
\* called, the row is locked and its correct_transcripts is the text it had
\* when the lock returned.
C8_LockSticks ==
    \A id \in RecIds :
        lockedText[id] # NotLocked =>
            /\ HasRow(stateFile, id)
            /\ RowOf(stateFile, id).locked = "True"
            /\ RowOf(stateFile, id).correct_transcripts = lockedText[id]

C14_StatusTransitions ==
    /\ [][\A j \in DOMAIN jobs :
            (j \in DOMAIN jobs' /\ jobs'[j].status # jobs[j].status) =>
                <<jobs[j].status, jobs'[j].status>> \in
                    {<<PENDING, RUNNING>>, <<RUNNING, COMPLETED>>,
                     <<RUNNING, FAILED>>, <<PENDING, FAILED>>}]_vars
    /\ [](\A j \in DOMAIN jobs : jobs[j].status # CANCELLED)
    /\ [][DOMAIN jobs \subseteq DOMAIN jobs']_vars

\* a job has gone from pending through running to completed
C14_Witness ==
    /\ TaskJob \in DOMAIN jobs
    /\ jobs[TaskJob].status = COMPLETED
    /\ jobs[TaskJob].started_at = Stamp
    /\ jobs[TaskJob].completed_at = Stamp

\* C15: in every state of the transcript table, whatever append, bulk
\* import, manual import, update, lock and unlock operations ran before, a
\* row with locked = false has no locked_at and a row with locked = true has
\* one.
C15_LockedAtFollowsLocked ==
    \A i \in 1..Len(stateFile) :
        LET row == load_state(stateFile)[i] IN
        /\ ~row.locked => row.locked_at = NaN
        /\ row.locked => row.locked_at # NaN

\* one row was locked and then unlocked, another row is locked
C15_Witness ==
    \E i, k \in RecIds :
        /\ lastLock[i] = "unlock"
        /\ lastLock[k] = "lock"
        /\ HasRow(stateFile, i) /\ RowOf(stateFile, i).locked = "False"
        /\ HasRow(stateFile, k) /\ RowOf(stateFile, k).locked = "True"

C17_LegacyCursor ==
    [][(latest' # latest \/ last_sent_row' # last_sent_row
          \/ caught_up' # caught_up) =>
        LET table == read_excel(xlsx) IN
        /\ (/\ writing = 0
            /\ \A i \in 1..Len(table) : table[i].filename \in returned)
           => (latest' = All_Records_Processed
               /\ last_sent_row' = last_sent_row)
        /\ (/\ writing = 0
            /\ caught_up.ok
            /\ Len(table) = Len(caught_up.table) + 1
            /\ SubSeq(table, 1, Len(caught_up.table)) = caught_up.table)
           => (latest' = NewRows(<<table[Len(table)]>>)
               /\ last_sent_row' = last_sent_row + 1)]_vars

\* a call answered with the sentinel, one row was appended, and the next
\* call returned that row alone
C17_Witness ==
    /\ caught_up.one_more
    /\ last_sent_row = 2
    /\ latest = NewRows(<<caught_up.table[2]>>)

C19_ErrorAndResultPresence ==
    \A j \in DOMAIN jobs :
        /\ jobs[j].error # None => jobs[j].status = FAILED
        /\ jobs[j].result # NoResult => jobs[j].status = COMPLETED

\* a job has failed in the middle of its files: it has an error, no result,
\* and the progress it had made
C19_Witness ==
    /\ TaskJob \in DOMAIN jobs
    /\ jobs[TaskJob].status = FAILED
    /\ jobs[TaskJob].error = StorageFailed
    /\ jobs[TaskJob].result = NoResult
    /\ jobs[TaskJob].processed_items > 0

\* C20: after update_progress(id, processed, total) on an existing job its
\* processed_items is processed, its total_items is total when one is given
\* and what it was otherwise, its progress is the floor of
\* processed * 100 / total_items when total_items > 0 and 0 when it is 0, and
\* the job's status, its other fields and the active index are as before.
C20_ProgressIsFloor ==
    [][(tpc' = "updated" /\ update_args'[1] \in DOMAIN jobs) =>
        LET id == update_args'[1]
            processed == update_args'[2]
            total == update_args'[3]
            total_items == IF total # NoTotal THEN total
                           ELSE jobs[id].total_items
        IN  /\ jobs'[id].processed_items = processed
            /\ jobs'[id].total_items = total_items
            /\ jobs'[id].progress =
                  IF total_items > 0
                  THEN (processed * 100) \div total_items ELSE 0
            /\ jobs' = [jobs EXCEPT
                          ![id].processed_items = jobs'[id].processed_items,
                          ![id].total_items = jobs'[id].total_items,
                          ![id].progress = jobs'[id].progress]
            /\ active' = active]_vars

\* C21: whenever the last _save_jobs call of a mutating operation wrote the
\* file, the history file is the dump of the in-memory job table and a
\* JobManager built from it holds the same jobs with the same field values
\* (a restart then changes nothing in the table); and an operation whose
\* write failed raises nothing and leaves its change of the table in place.
C21_HistoryFileRoundTrip ==
    /\ [](saved = Written =>
            /\ jobsFile = Json({to_dict(j, jobs[j]) : j \in DOMAIN jobs})
            /\ _load_jobs(jobsFile) = jobs)
    /\ [][(tpc' = "killed" /\ saved = Written) => jobs' = jobs]_vars
    /\ [][(saved' # Written /\ tpc' # tpc /\ tpc' # "killed") =>
            /\ tpc = "unborn" =>
                  /\ tpc' = "start_job"
                  /\ jobs'[TaskJob] = JobInfo(TRANSCRIBE, tfiles')
            /\ tpc = "start_job" =>
                  /\ tpc' = "task_func"
                  /\ jobs'[TaskJob].status = RUNNING
                  /\ jobs'[TaskJob].started_at = Stamp
            /\ tpc = "update_progress" =>
                  /\ tpc' = "files"
                  /\ jobs'[TaskJob].processed_items = tidx + 1
            /\ (tpc = "files" /\ tpc' = "done") =>
                  /\ jobs'[TaskJob].status = COMPLETED
                  /\ jobs'[TaskJob].result # NoResult
            /\ tpc = "except" =>
                  /\ tpc' = "done"
                  /\ jobs'[TaskJob].status = FAILED
                  /\ jobs'[TaskJob].error = raised
            /\ tpc \in {"unborn", "start_job", "update_progress", "except"}
                  => raised' = raised]_vars

\* a job failed with its last write done, the process was restarted and the
\* new JobManager holds the failed job with its error and its progress
C21_Witness ==
    /\ tpc = "killed"
    /\ saved = Written
    /\ TaskJob \in DOMAIN jobs
    /\ jobs[TaskJob].status = FAILED
    /\ jobs[TaskJob].error = StorageFailed
    /\ jobs[TaskJob].processed_items > 0

\* C22: the model cache never holds more than one entry.  A load_model call
\* with the name of the cached model returns the cached instance and the
\* body does not run; a successful call with another name runs the body,
\* returns a new instance and leaves that one as the only entry; and of two
\* successful calls with one name, the later returns the instance of the
\* earlier exactly when no successful call with another name came between.
C22_ModelCacheOneEntry ==
    /\ [](Len(model_cache) <= 1)
    /\ [][Len(calls') = Len(calls) + 1 =>
            LET c == calls'[Len(calls')] IN
            IF model_cache # <<>> /\ model_cache[1].name = c.name
            THEN /\ c.instance = model_cache[1].instance
                 /\ body_runs' = body_runs
                 /\ model_cache' = model_cache
            ELSE /\ body_runs' = body_runs + 1
                 /\ IF c.instance # 0
                    THEN /\ c.instance = body_runs'
                         /\ \A i \in 1..Len(calls) :
                               calls[i].instance # c.instance
                         /\ model_cache' = <<c>>
                    ELSE model_cache' = model_cache]_vars
    /\ [](\A i, k \in 1..Len(calls) :
            (i < k /\ calls[i].name = calls[k].name
               /\ calls[i].instance # 0 /\ calls[k].instance # 0) =>
              ((calls[k].instance = calls[i].instance) <=>
               ~\E j \in (i + 1)..(k - 1) :
                   calls[j].instance # 0 /\ calls[j].name # calls[i].name))

\* model a was loaded, asked for again and returned from the cache, model b
\* was loaded, and model a was then initialized anew
C22_Witness ==
    /\ Len(calls) = 4
    /\ calls[1].name = "a" /\ calls[1].instance = 1
    /\ calls[2] = calls[1]
    /\ calls[3].name = "b" /\ calls[3].instance = 2
    /\ calls[4].name = "a" /\ calls[4].instance = 3
    /\ model_cache = <<calls[4]>>

C24_RecordsInSegmentOrder ==
    seg_n > 0 => seg_pos = seg_n

\* C24, progress: the records of one job are appended in the order of the
\* file loop and of the segment list, and the update_progress call that sets
\* processed_items to k comes when every segment of file k has its record
\* and before any record of a later file.
C24_ProgressAfterWholeFile ==
    /\ [](\A i, k \in 1..Len(stateFile) :
            i < k =>
              \/ stateFile[i].filename[1] < stateFile[k].filename[1]
              \/ /\ stateFile[i].filename[1] = stateFile[k].filename[1]
                 /\ stateFile[i].filename[2] < stateFile[k].filename[2])
    /\ [][(TaskJob \in DOMAIN jobs /\ TaskJob \in DOMAIN jobs'
           /\ jobs'[TaskJob].processed_items # jobs[TaskJob].processed_items) =>
            LET k == jobs'[TaskJob].processed_items IN
            /\ tpc = "update_progress"
            /\ k = tidx + 1
            /\ tseg = tsegs
            /\ Cardinality({i \in 1..Len(stateFile) :
                              stateFile[i].filename[1] = k}) = tsegs
            /\ stateFile' = stateFile]_vars
    /\ [][\A i \in 1..Len(stateFile') :
            (i > Len(stateFile) /\ TaskJob \in DOMAIN jobs) =>
              stateFile'[i].filename[1] > jobs[TaskJob].processed_items]_vars

\* C25: under every interleaving of get_job_manager calls of several
\* threads, first calls running together included, at most one JobManager is
\* ever constructed, every call that returned has returned an instance, and
\* all of them the same one.
C25_OneJobManager ==
    /\ constructed <= 1
    /\ _job_manager \in {0, 1}
    /\ \A g \in GThreads : \A i \in 1..Len(gret[g]) : gret[g][i] = 1

\* two threads found the global empty in their first calls; one of them has
\* built the JobManager and returned it, the other holds the lock now and is
\* about to test the global again
C25_Witness ==
    \E g1, g2 \in GThreads :
        /\ g1 # g2
        /\ gret[g1] # <<>>
        /\ gpc[g2] = "locked"
        /\ gret[g2] = <<>>
        /\ constructed = 1

\* C26: legacy.  No row is lost when several process_audio tasks run in
\* different workers: once every worker has transcribed its segments and
\* written the spreadsheet, the spreadsheet holds a row for every segment
\* transcribed by every worker.
C26_LegacyNoRowLost ==
    (writing = 0 /\ \A w \in Workers : Len(wdf[w]) = MaxChunks) =>
        \A w \in Workers : \A k \in 1..MaxChunks :
            \E i \in 1..Len(xlsx) : xlsx[i].filename = <<w, k>>

\* C27: no Job Manager operation blocks forever.  Under fair scheduling a
\* thread that has called can_start_job, create_job or start_job gets the
\* lock and leaves the call, and a status poll that has called get_job is
\* answered.
C27_NoOperationBlocksForever ==
    /\ \A t \in Threads :
         \A p \in {"can_start_job", "create_job", "start_job"} :
            (pc[t] = p) ~> (pc[t] # p)
    /\ (ppc = "get_job") ~> (ppc = "idle")

C30_NoMatchChangesNothing ==
    [][\A t \in SThreads :
        (/\ spc[t] = "loaded"
         /\ spc'[t] = "idle"
         /\ sop[t].op \in {"update", "lock", "unlock"}
         /\ ~HasRow(stateFile, sop[t].id))
        => /\ sres'[t] = "ok"
           /\ load_state(stateFile') = load_state(stateFile)
           /\ stateFile' = stateFile]_vars

\* a call that matched no row of a table holding a row has returned, and the
\* table holds a locked row
C30_Witness ==
    /\ missed
    /\ \A t \in SThreads : spc[t] = "idle"
    /\ \E i \in 1..Len(stateFile) : stateFile[i].locked = "True"

\* C31: legacy /get-progress.  The counters total_files and processed_files
\* never decrease, processed_files never exceeds total_files, and every
\* answer of /get-progress is a percentage from 0 to 100, which is 0 when
\* the call read total_files as 0.
C31_PercentageInRange ==
    /\ 0 <= gp_answer.num
    /\ gp_answer.num <= 100 * gp_answer.den
    /\ redis_get_or_0(processed_files) <= redis_get_or_0(total_files)

\* C31, the counters alone: neither decreases in any step and
\* processed_files never exceeds total_files
C31_CountersMonotonic ==
    [][/\ redis_get_or_0(total_files') >= redis_get_or_0(total_files)
       /\ redis_get_or_0(processed_files') >= redis_get_or_0(processed_files)
       /\ redis_get_or_0(processed_files') <= redis_get_or_0(total_files')]_vars

\* C32: legacy /get-latest-data beside worker writes.  The cursor
\* last_sent_row never decreases and, with the spreadsheet at rest, never
\* exceeds its number of rows; no call returns a row that an earlier call
\* returned; and a call that read the spreadsheet at rest leaves no row of
\* it unreturned.
C32_EveryRowReturnedOnce ==
    /\ [](writing = 0 => last_sent_row <= Len(xlsx))
    /\ [][/\ last_sent_row' >= last_sent_row
          /\ (last_sent_row' # last_sent_row /\ latest'.json = "list")
                => \A i \in 1..Len(latest'.rows) :
                      latest'.rows[i].filename \notin returned
          /\ ((latest' # latest \/ last_sent_row' # last_sent_row
                  \/ caught_up' # caught_up) /\ writing = 0)
                => \A i \in 1..Len(xlsx) : xlsx[i].filename \in returned'
         ]_vars

====
